---- MODULE Spec2Model ----
(***************************************************************************)
(* The task pipeline core of task_pipeline: Pipeline.run walking a plan of *)
(* serial steps and parallel groups, TaskExecutor.execute,                 *)
(* ParallelTaskExecutor.execute with its worker pool, the context merger,  *)
(* the ProgressTracker, the progress callback and Pipeline.get_status.     *)
(*                                                                         *)
(* Contexts are objects on a heap and are held by reference, as in the     *)
(* source: Pipeline.run mutates the object it was given while it walks     *)
(* serial steps, and rebinds current_context to a fresh object after a     *)
(* parallel group.                                                         *)
(*                                                                         *)
(* A step's run method is user code.  What it writes, whether it raises    *)
(* and what its critical property answers are inputs, drawn when the step  *)
(* is invoked.  In one run all steps use the results key with values of    *)
(* one kind (opaque scalar, number, list or mapping), the way the steps of *)
(* the test suite do (SimpleStep, CounterStep, ListAppendStep,             *)
(* DictMergeStep), or they leave the results alone and report progress    *)
(* (GranularStep).                                                         *)
(*                                                                         *)
(* Percentages are exact: a weight is the numerator of a fraction over     *)
(* WeightDenominator.  The rounding of Python's binary floats (an overall  *)
(* progress of 100.00000000000001 for some plans of four steps) is not     *)
(* represented.  The progress callback is one that returns normally.       *)
(***************************************************************************)
EXTENDS Integers, Sequences, FiniteSets

\* The plans that are explored hold at most MaxSteps steps in all, shared
\* among serial positions and parallel groups.
MaxSteps == 2

\* The results keys the steps use.  The merger treats every key on its own,
\* so one key shows every rule.
Keys == {"k"}

\* What the steps of a run do: write values of one kind under the key, or
\* write nothing and report their progress.
Kinds == {"opaque", "num", "list", "map", "progress"}

----------------------------------------------------------------------------
\* Values stored under a results key.  t tells which field is meaningful;
\* an opaque scalar (string, boolean, ...) is identified by the tag n.

Absent == [t |-> "absent", n |-> 0, l |-> <<>>, d |-> <<>>]
Opaque(x) == [t |-> "opaque", n |-> x, l |-> <<>>, d |-> <<>>]
Num(x) == [t |-> "num", n |-> x, l |-> <<>>, d |-> <<>>]
List(s) == [t |-> "list", n |-> 0, l |-> s, d |-> <<>>]

\* A mapping value: d maps some of the inner keys to scalars.
Map(f) == [t |-> "map", n |-> 0, l |-> <<>>, d |-> f]

\* The inner keys the steps use in a mapping value.
InnerKeys == {1, 2}

\* d[key] = x on a dict.
DictPut(f, key, x) == [i \in DOMAIN f \cup {key} |-> IF i = key THEN x ELSE f[i]]

\* d.update(other).
DictUpdate(f, other) ==
    [i \in DOMAIN f \cup DOMAIN other |-> IF i \in DOMAIN other THEN other[i] ELSE f[i]]

\* Python's s[from:] for a 0-based index from.
SliceFrom(s, from) == IF from >= Len(s) THEN <<>> ELSE SubSeq(s, from + 1, Len(s))

Range(s) == {s[i] : i \in 1..Len(s)}

\* Exceptions: the error raised by a step's run, the RuntimeError of a
\* failed group, the TimeoutError of as_completed.
NoExc == [kind |-> "none", origin |-> 0]
StepErr(sid) == [kind |-> "step", origin |-> sid]
GroupErr(pos) == [kind |-> "group", origin |-> pos]
TimeoutErr(pos) == [kind |-> "timeout", origin |-> pos]

\* Plan entries: a serial step, or a parallel group of n steps.
SerialEntry == [par |-> FALSE, n |-> 1]
GroupEntry(n) == [par |-> TRUE, n |-> n]

\* The steps an entry takes from the budget; an empty group counts as one.
Cost(e) == IF e.n = 0 THEN 1 ELSE e.n

EntriesWithin(budget) ==
    {e \in {SerialEntry} \cup {GroupEntry(n) : n \in 0..budget} : Cost(e) <= budget}

RECURSIVE PlansWithin(_)
PlansWithin(budget) ==
    {<<>>} \cup UNION {{<<e>> \o p : p \in PlansWithin(budget - Cost(e))} :
                         e \in EntriesWithin(budget)}

Plans == PlansWithin(MaxSteps)

\* step_id of the j-th step of plan position pos (ids are unique in a plan).
StepId(pos, j) == pos * 10 + j
PosOf(sid) == sid \div 10

\* The names get_status and the progress callback give a plan position:
\* step.step_id, or "parallel_group_<index>" with the 0-based index.
NoName == [kind |-> "none", id |-> 0]
StepName(sid) == [kind |-> "step", id |-> sid]
GroupName(index) == [kind |-> "group", id |-> index]

----------------------------------------------------------------------------
VARIABLES
    plan,               \* Pipeline.steps, by shape
    step_ids,           \* step.step_id of the steps passed to Pipeline(...)
    fail_fast,          \* PipelineConfig.fail_fast
    operator,           \* ParallelConfig.operator: "and" or "or"
    timeout,            \* ParallelConfig.timeout is set
    kind,               \* the kind of value the steps of this run write
    heap,               \* the live PipelineContext objects, by reference
    context,            \* the reference the caller passed to Pipeline.run
    current_context,    \* Pipeline.run's local current_context
    pc,                 \* where Pipeline.run is
    step_index,         \* the plan position being processed, from 1
    exc,                \* the exception in flight, or raised by run
    ret,                \* the reference the executor call returned, or 0
    original_context,   \* ParallelTaskExecutor.execute's snapshot, or 0
    workers,            \* the futures of the group being executed
    completed,          \* worker indices in the order as_completed yields
    step_progress,      \* ProgressTracker._step_progress
    is_running,         \* Pipeline._is_running
    current_step,       \* Pipeline._current_step as a position from 1; 0 is None
    status,             \* the get_status call of another thread
    observed,           \* the calls the progress callback has received
    attempted,          \* history: the positions dispatched, in order
    snapshot,           \* history: results and errors when the group began
    entry_errors,       \* history: the caller's errors on entry to run
    finished,           \* history: the earlier runs of this Pipeline
    trace,              \* history: what the steps of each position did, if kept
    invoked,            \* history: ids of the steps whose run was invoked
    raised,             \* history: the steps whose run raised
    pos_ok,             \* history: positions whose executor call returned
    pos_failed,         \* history: positions whose executor call raised
    ok_results          \* history: results returned by the last such call

vars == <<plan, step_ids, fail_fast, operator, timeout, kind, heap, context,
          current_context, pc, step_index, exc, ret, original_context,
          workers, completed, step_progress, is_running, current_step, status,
          observed, attempted, snapshot, entry_errors, invoked, raised, pos_ok,
          pos_failed, ok_results, finished, trace>>

config == <<plan, step_ids, fail_fast, operator, timeout, kind, context, entry_errors, finished>>
group == <<original_context, workers, completed, snapshot>>
history == <<invoked, raised, pos_ok, pos_failed, ok_results>>
lifecycle == <<is_running, current_step>>

----------------------------------------------------------------------------
\* The heap.

\* The reference of a newly constructed object.
NewRef(h) == CHOOSE r \in 1..(Cardinality(DOMAIN h) + 1) : r \notin DOMAIN h

\* Constructing an object: the heap afterwards and the new reference.
Alloc(h, obj) ==
    [heap |-> [r \in DOMAIN h \cup {NewRef(h)} |-> IF r \in DOMAIN h THEN h[r] ELSE obj],
     ref |-> NewRef(h)]

\* _current_step_id = None.
NoStepId == 0 - 1

\* A PipelineContext object.  app_config and logger_instance hold the
\* identity of the object they refer to, progress_tracker is "none" (None),
\* "pipeline" (the tracker of this Pipeline) or "other" (the tracker of some
\* other Pipeline).
PipelineContext(config_id, logger_id, results, errors, tracker, step_id) ==
    [app_config |-> config_id, logger_instance |-> logger_id,
     results |-> results, errors |-> errors,
     progress_tracker |-> tracker, current_step_id |-> step_id]

\* DeepCopy handing back the object it was given.
DeepCopy_Alias(h, r) == [heap |-> h, ref |-> r]

\* DeepCopy leaving the tracker of the copy unset.
DeepCopy_NoTracker(h, r) ==
    Alloc(h, PipelineContext(NewRef(h), h[r].logger_instance, h[r].results,
                             h[r].errors, "none", h[r].current_step_id))

\* PipelineContext.__deepcopy__: a new object.  app_config, an application
\* configuration object, is duplicated (the copy has an identity of its
\* own); RichLogger.__deepcopy__ returns the logger itself; results and
\* errors are duplicated; the tracker is shared and the step id copied.
DeepCopy(h, r) ==
    Alloc(h, PipelineContext(NewRef(h), h[r].logger_instance, h[r].results,
                             h[r].errors, h[r].progress_tracker,
                             h[r].current_step_id))

\* Objects nothing refers to any more are collected.
Keep(h, refs) == [r \in DOMAIN h \cap refs |-> h[r]]

----------------------------------------------------------------------------
\* Steps.

\* What a step's run may do to the results key, per kind of value.
Ops ==
    [opaque |-> {"none", "set"},
     num |-> {"none", "inc", "dec"},
     list |-> {"none", "app1", "app2"},
     map |-> {"none", "put1", "put2"},
     progress |-> {"none"}]

\* The i-th item a step appends to a list; no two steps append the same item.
Item(sid, i) == sid * 10 + i

\* The value a step leaves under a key: SimpleStep stores its own value,
\* CounterStep reads, adds and stores, ListAppendStep extends the list.
ApplyOp(v, op, sid, j) ==
    CASE op = "set" -> Opaque(sid)
      [] op = "inc" -> Num(v.n + j)
      [] op = "dec" -> Num(v.n - j)
      [] op = "app1" -> List(v.l \o <<Item(sid, 1)>>)
      [] op = "app2" -> List(v.l \o <<Item(sid, 1), Item(sid, 2)>>)
      [] op = "put1" -> Map(DictPut(v.d, 1, sid))
      [] op = "put2" -> Map(DictPut(v.d, 2, sid))
      [] OTHER -> v

\* step.run(context) up to its return or raise: the object is changed in place.
StepRun(h, r, op, sid, j) ==
    [h EXCEPT ![r].results = [k \in Keys |-> ApplyOp(h[r].results[k], op, sid, j)]]

\* TaskExecutorExecute re-raising whatever step.critical answers.
TaskExecutorExecute_RaiseAll(h, r, op, sid, j, raises, critical) ==
    LET h1 == StepRun(h, r, op, sid, j)
        h2 == IF raises
              THEN [h1 EXCEPT ![r].errors = Append(@, StepErr(sid))]
              ELSE h1
    IN  [heap |-> h2,
         exc |-> IF raises THEN StepErr(sid) ELSE NoExc]

\* TaskExecutor.execute(step, context): the heap afterwards and the exception
\* that leaves execute (NoExc when it returns context).
TaskExecutorExecute(h, r, op, sid, j, raises, critical) ==
    LET h1 == StepRun(h, r, op, sid, j)
        h2 == IF raises
              THEN [h1 EXCEPT ![r].errors = Append(@, StepErr(sid))]
              ELSE h1
    IN  [heap |-> h2,
         exc |-> IF raises /\ critical THEN StepErr(sid) ELSE NoExc]

----------------------------------------------------------------------------
\* ProgressTracker.

\* The step ids of the steps of a plan.
StepIds(p) == UNION {{StepId(pos, j) : j \in 1..p[pos].n} : pos \in DOMAIN p}

\* A common multiple of the sizes of the non-empty groups of a plan.
RECURSIVE GroupSizes(_)
GroupSizes(p) ==
    IF p = <<>> THEN 1
    ELSE (IF Head(p).n = 0 THEN 1 ELSE Head(p).n) * GroupSizes(Tail(p))

\* Every percentage of a plan is a multiple of 1 / WeightDenominator.
WeightDenominator(p) == IF p = <<>> THEN 1 ELSE Len(p) * GroupSizes(p)

\* CalculateWeights giving every step of a group the weight of the group.
CalculateWeights_NoSplit(p) ==
    [sid \in StepIds(p) |-> (100 * WeightDenominator(p)) \div Len(p)]

\* _calculate_weights: step_weight = 100 / total_steps for a serial step,
\* step_weight / len(step) for a step of a group; an empty plan and an empty
\* group give no entry.  The values are numerators over WeightDenominator.
CalculateWeights(p) ==
    [sid \in StepIds(p) |->
        (100 * WeightDenominator(p)) \div (Len(p) * p[PosOf(sid)].n)]

\* SumOver(f, S): the sum of f over the keys in S.
RECURSIVE SumOver(_, _)
SumOver(f, S) ==
    IF S = {} THEN 0
    ELSE LET x == CHOOSE y \in S : TRUE
         IN  f[x] + SumOver(f, S \ {x})

\* Clamp without the lower limit.
Clamp_NoFloor(progress) == IF progress > 100 THEN 100 ELSE progress

\* max(0.0, min(100.0, progress)).
Clamp(progress) ==
    IF progress > 100 THEN 100 ELSE IF progress < 0 THEN 0 ELSE progress

\* update_step_progress(step_id, progress) on the dict sp.
UpdateStepProgress(sp, step_id, progress) ==
    [s \in DOMAIN sp \cup {step_id} |->
        IF s = step_id THEN Clamp(progress) ELSE sp[s]]

\* PipelineContext.update_step_progress called with each value of ps in turn
\* by the step whose id is step_id.
RECURSIVE ReportProgress(_, _, _)
ReportProgress(sp, step_id, ps) ==
    IF ps = <<>> THEN sp
    ELSE ReportProgress(UpdateStepProgress(sp, step_id, Head(ps)), step_id, Tail(ps))

\* The calls a step makes on the context object ctx: each is passed on to the
\* tracker `if self._progress_tracker and self._current_step_id`, for the step
\* id the context holds.  A tracker of another Pipeline is not this one's.
ContextUpdateStepProgress(ctx, sp, ps) ==
    IF ctx.progress_tracker = "pipeline" /\ ctx.current_step_id # NoStepId
    THEN ReportProgress(sp, ctx.current_step_id, ps)
    ELSE sp

\* self._step_progress.get(step_id, 0.0).
InternalProgress(sp, step_id) == IF step_id \in DOMAIN sp THEN sp[step_id] ELSE 0

\* max_weight * (step_internal_progress / 100.0), over WeightDenominator.
Contribution(p, sp, step_id) ==
    (CalculateWeights(p)[step_id] * InternalProgress(sp, step_id)) \div 100

\* get_overall_progress: the sum of the contributions, over WeightDenominator.
GetOverallProgress(p, sp) ==
    SumOver([sid \in StepIds(p) |-> Contribution(p, sp, sid)], StepIds(p))

\* get_step_details.
GetStepDetails(p, sp) ==
    [sid \in StepIds(p) |->
        [internal_progress |-> InternalProgress(sp, sid),
         max_weight |-> CalculateWeights(p)[sid],
         contribution |-> Contribution(p, sp, sid)]]

\* The auto-completion of the steps of plan position pos.
RECURSIVE CompleteSteps(_, _, _)
CompleteSteps(sp, pos, n) ==
    IF n = 0 THEN sp
    ELSE UpdateStepProgress(CompleteSteps(sp, pos, n - 1), StepId(pos, n), 100)

----------------------------------------------------------------------------
\* ParallelTaskExecutor._merge_contexts.

\* original_context.results.get(key, []) for a list value, .get(key, 0) else.
OriginalValue(orig, value) ==
    IF orig.t # "absent" THEN orig
    ELSE IF value.t = "list" THEN List(<<>>) ELSE Num(0)

\* MergeList extending merged by the whole of the step's list.
MergeList_WholeValue(original_value, m, value) ==
    IF original_value.t = "list"
    THEN IF m.t = "list"
         THEN List(m.l \o value.l)
         ELSE List(original_value.l \o value.l)
    ELSE List(value.l)

\* The list rule: what merged.results[key] becomes (m is Absent when the key
\* is not in merged.results).
MergeList(original_value, m, value) ==
    IF original_value.t = "list"
    THEN LET new_items == SliceFrom(value.l, Len(original_value.l))
         IN  IF new_items # <<>>
             THEN IF m.t = "list"
                  THEN List(m.l \o new_items)
                  ELSE List(original_value.l \o new_items)
             ELSE IF m.t = "absent" THEN List(original_value.l) ELSE m
    ELSE List(value.l)

\* MergeNum without the test for a positive increment.
MergeNum_NoGuard(original_value, m, value) ==
    Num((IF m.t = "absent" THEN original_value.n ELSE m.n)
        + (value.n - original_value.n))

\* The numeric rule: only a positive increment is added.  (Where merged holds
\* a value that is not a number the addition raises in Python; that needs
\* steps writing values of different kinds under one key, which no run here
\* has.)
MergeNum(original_value, m, value) ==
    LET step_increment == value.n - original_value.n
    IN  IF step_increment > 0
        THEN Num((IF m.t = "absent" THEN original_value.n ELSE m.n) + step_increment)
        ELSE m

\* The mapping rule: merged's dict is updated with the whole of the step's
\* dict, or the step's dict is stored when merged holds no dict.
MergeDict(original_value, m, value) ==
    IF m.t = "map" THEN Map(DictUpdate(m.d, value.d)) ELSE Map(value.d)

\* All other values (booleans, strings, ...): the value is stored as it is.
MergeOther(original_value, m, value) == value

\* One turn of the loop over step_context.results.items().
MergeValue(orig, m, value) ==
    LET original_value == OriginalValue(orig, value)
    IN  IF value.t = "list" THEN MergeList(original_value, m, value)
        ELSE IF value.t = "num" /\ original_value.t = "num"
             THEN MergeNum(original_value, m, value)
        ELSE IF value.t = "map" THEN MergeDict(original_value, m, value)
        ELSE MergeOther(original_value, m, value)

\* MergeOne leaving the errors of the step out.
MergeOne_NoErrors(original, merged, step_context) ==
    [merged EXCEPT
        !.results =
            [k \in Keys |->
                IF step_context.results[k].t = "absent"
                THEN merged.results[k]
                ELSE MergeValue(original.results[k], merged.results[k],
                                step_context.results[k])]]

\* MergeOne extending the errors by all the errors of the step.
MergeOne_AllErrors(original, merged, step_context) ==
    [merged EXCEPT
        !.results =
            [k \in Keys |->
                IF step_context.results[k].t = "absent"
                THEN merged.results[k]
                ELSE MergeValue(original.results[k], merged.results[k],
                                step_context.results[k])],
        !.errors = merged.errors \o step_context.errors]

\* One turn of the loop over step_contexts: the merged object after
\* step_context has been merged into it (new_errors is the part of the
\* step's errors beyond the length of the original's).
MergeOne(original, merged, step_context) ==
    [merged EXCEPT
        !.results =
            [k \in Keys |->
                IF step_context.results[k].t = "absent"
                THEN merged.results[k]
                ELSE MergeValue(original.results[k], merged.results[k],
                                step_context.results[k])],
        !.errors =
            merged.errors \o SliceFrom(step_context.errors, Len(original.errors))]

RECURSIVE MergeAll(_, _, _)
MergeAll(original, merged, step_contexts) ==
    IF step_contexts = <<>> THEN merged
    ELSE MergeAll(original, MergeOne(original, merged, Head(step_contexts)),
                  Tail(step_contexts))

\* _merge_contexts(original_context, step_contexts): merged starts as a deep
\* copy of the original orig and is returned.  The result is the heap afterwards
\* and the reference of merged.
MergeContexts(h, orig, step_contexts) ==
    LET merged == DeepCopy(h, orig)
    IN  [heap |-> [merged.heap EXCEPT ![merged.ref] =
                      MergeAll(h[orig], @, step_contexts)],
         ref |-> merged.ref]

----------------------------------------------------------------------------
\* The state before Pipeline.run is called.

\* A value of the run's kind that the caller's context may already hold.
Present(kd) ==
    CASE kd = "opaque" -> Opaque(0)
      [] kd = "num" -> Num(2)
      [] kd = "map" -> Map(DictPut(<<>>, 1, 0))
      [] OTHER -> List(<<0>>)

\* The contexts run is called with: a fresh one, and one an earlier run of
\* another Pipeline has left a value, an error, its tracker and the id of its
\* last step in.
EntryContexts(kd) ==
    {[v |-> Absent, errors |-> <<>>, progress_tracker |-> "none",
      current_step_id |-> NoStepId]}
        \cup (IF kd = "progress" THEN {}
              ELSE {[v |-> Present(kd), errors |-> <<StepErr(0)>>,
                     progress_tracker |-> "other", current_step_id |-> 0]})

\* ParallelConfig: the operator, and whether a timeout is set.  A plan
\* without a non-empty group never reads it and is run with the defaults.
ParallelConfigs(p) ==
    IF \E i \in DOMAIN p : p[i].par /\ p[i].n > 0
    THEN [operator : {"and", "or"}, timeout : BOOLEAN]
    ELSE {[operator |-> "and", timeout |-> FALSE]}

NoSnapshot == [results |-> [k \in Keys |-> Absent], errors |-> <<>>]

\* No get_status call has been made.
NoStatus ==
    [at |-> "none", progress |-> 0, current_step |-> NoName,
     is_running |-> FALSE, step_details |-> <<>>]

\* What the steps of the positions did is not kept.
NoTrace == [kept |-> FALSE, entry |-> NoSnapshot, positions |-> <<>>]

\* What a step's run did: its write, whether it raised, and what its
\* critical property answers.
Did(op, raises, critical) == [op |-> op, raises |-> raises, critical |-> critical]

\* The trace t with one more position: what each of its steps did, the order
\* in which as_completed yielded them and whether the deadline elapsed.
Traced(t, steps, order, timedout) ==
    IF ~t.kept THEN t
    ELSE [t EXCEPT !.positions =
             Append(@, [steps |-> steps, order |-> order, timedout |-> timedout])]

PendingWorker(r) ==
    [ctx |-> r, st |-> "pending", op |-> "none", raised |-> FALSE,
     critical |-> TRUE, err |-> NoExc]

\* The step ids of the plans that are run: no two steps share one.
PlanStepIds(p) == [pos \in DOMAIN p |-> [j \in 1..p[pos].n |-> StepId(pos, j)]]

\* The state after construction, with the trace t.
InitWith(t) ==
    /\ plan \in Plans
    /\ step_ids = PlanStepIds(plan)
    /\ fail_fast \in BOOLEAN
    /\ \E c \in ParallelConfigs(plan) :
        /\ operator = c.operator
        /\ timeout = c.timeout
    /\ kind \in Kinds
    /\ context = 1
    /\ \E c \in EntryContexts(kind) :
        LET v == c.v
            errs == c.errors
        IN
        /\ heap = [r \in {context} |->
                      PipelineContext(context, context, [k \in Keys |-> v], errs,
                                      c.progress_tracker, c.current_step_id)]
        /\ entry_errors = errs
        /\ ok_results = [k \in Keys |-> v]
    /\ current_context = 0
    /\ pc = "idle"
    /\ step_index = 0
    /\ exc = NoExc
    /\ ret = 0
    /\ original_context = 0
    /\ workers = <<>>
    /\ completed = <<>>
    /\ step_progress = <<>>
    /\ is_running = FALSE
    /\ current_step = 0
    /\ status = NoStatus
    /\ observed = <<>>
    /\ attempted = <<>>
    /\ snapshot = NoSnapshot
    /\ invoked = {}
    /\ raised = {}
    /\ pos_ok = {}
    /\ pos_failed = {}
    /\ finished = <<>>
    /\ trace = t

Init == InitWith(NoTrace)

----------------------------------------------------------------------------
\* Pipeline.run.

\* RunStart making a new tracker state for the run.
RunStart_ResetTracker ==
    /\ pc = "idle"
    /\ pc' = "dispatch"
    /\ heap' = [heap EXCEPT ![context].progress_tracker = "pipeline"]
    /\ current_context' = context
    /\ step_index' = 1
    /\ is_running' = TRUE
    /\ step_progress' = <<>>
    /\ UNCHANGED <<trace, config, exc, ret, group, history, current_step, status,
                   observed, attempted>>

\* Entry to run: the tracker is injected into the caller's object and
\* current_context is bound to it.
RunStart ==
    /\ pc = "idle"
    /\ pc' = "dispatch"
    /\ heap' = [heap EXCEPT ![context].progress_tracker = "pipeline"]
    /\ current_context' = context
    /\ step_index' = 1
    /\ is_running' = TRUE
    /\ UNCHANGED <<trace, config, exc, ret, group, history, step_progress,
                   current_step, status, observed, attempted>>

AtEntry == pc = "dispatch" /\ step_index <= Len(plan)

\* The write a step that raises has made before it raises, if it made one.
Written ==
    [opaque |-> "set", num |-> "inc", list |-> "app1", map |-> "put1",
     progress |-> "none"]

\* The values a step may pass to context.update_step_progress, in turn.  The
\* tracker and the results never meet in the code, so the steps that report
\* are those that write no results.
Reports ==
    [opaque |-> {<<>>},
     num |-> {<<>>},
     list |-> {<<>>},
     map |-> {<<>>},
     progress |-> {<<>>, <<-50>>, <<150>>}]

\* The behaviours a step may show.  A step that returns does any of Ops; a
\* critical step that raises does so before or after its write; a
\* non-critical step that raises has written if the steps of the run write
\* (the case that leaves a half-done change behind).  critical is read only
\* when run raised.
Behaviours ==
    {b \in [op : Ops[kind], raises : BOOLEAN, critical : BOOLEAN,
            progress : Reports[kind]] :
        /\ ~b.raises => b.critical
        /\ b.raises => b.op \in {"none", Written[kind]}
        /\ ~b.critical => b.op = Written[kind]}

Record(sid, b) == [id |-> sid, critical |-> b.critical]

\* A serial position: current_context._current_step_id is set and
\* task_executor.execute(step, current_context) is called.
SerialExecute ==
    /\ AtEntry
    /\ ~plan[step_index].par
    /\ \E b \in Behaviours :
        LET sid == StepId(step_index, 1)
            h == [heap EXCEPT ![current_context].current_step_id = sid]
            r == TaskExecutorExecute(h, current_context, b.op, sid, 1,
                                     b.raises, b.critical)
        IN  /\ heap' = r.heap
            /\ exc' = r.exc
            /\ ret' = IF r.exc = NoExc THEN current_context ELSE 0
            /\ invoked' = invoked \cup {sid}
            /\ raised' = IF b.raises THEN raised \cup {Record(sid, b)} ELSE raised
            /\ step_progress' =
                   ContextUpdateStepProgress(h[current_context], step_progress,
                                             b.progress)
        /\ trace' = Traced(trace, <<Did(b.op, b.raises, b.critical)>>, <<1>>,
                               FALSE)
    /\ pc' = "after"
    /\ current_step' = step_index
    /\ attempted' = Append(attempted, step_index)
    /\ UNCHANGED <<config, current_context, step_index, group, pos_ok,
                   pos_failed, ok_results, is_running, status, observed>>

----------------------------------------------------------------------------
\* ParallelTaskExecutor.execute.

\* ParallelExecuteEmpty returning a deep copy of the context.
ParallelExecuteEmpty_Copy ==
    /\ AtEntry
    /\ plan[step_index].par
    /\ plan[step_index].n = 0
    /\ heap' = DeepCopy(heap, current_context).heap
    /\ ret' = DeepCopy(heap, current_context).ref
    /\ exc' = NoExc
    /\ pc' = "after"
    /\ current_step' = step_index
    /\ attempted' = Append(attempted, step_index)
    /\ trace' = Traced(trace, <<>>, <<>>, FALSE)
    /\ UNCHANGED <<config, current_context, step_index, group, history,
                   step_progress, is_running, status, observed>>

\* `if not steps: return context`.
ParallelExecuteEmpty ==
    /\ AtEntry
    /\ plan[step_index].par
    /\ plan[step_index].n = 0
    /\ ret' = current_context
    /\ exc' = NoExc
    /\ pc' = "after"
    /\ current_step' = step_index
    /\ attempted' = Append(attempted, step_index)
    /\ trace' = Traced(trace, <<>>, <<>>, FALSE)
    /\ UNCHANGED <<config, heap, current_context, step_index, group, history,
                   step_progress, is_running, status, observed>>

\* SubmitAll leaving the step id of the copies as it was copied.
RECURSIVE SubmitAll_NoStepId(_, _, _, _)
SubmitAll_NoStepId(h, orig, ws, n) ==
    IF Len(ws) = n THEN [heap |-> h, workers |-> ws]
    ELSE LET step_context == DeepCopy(h, orig)
         IN  SubmitAll_NoStepId([step_context.heap EXCEPT
                                    ![step_context.ref].progress_tracker = "pipeline"],
                                orig, Append(ws, PendingWorker(step_context.ref)), n)

\* The submit loop: one deep copy of original_context per step, given the
\* step's id and the tracker execute was called with.  The result is the
\* heap afterwards and the futures created so far.
RECURSIVE SubmitAll(_, _, _, _)
SubmitAll(h, orig, ws, n) ==
    IF Len(ws) = n THEN [heap |-> h, workers |-> ws]
    ELSE LET step_context == DeepCopy(h, orig)
             sid == StepId(step_index, Len(ws) + 1)
         IN  SubmitAll([step_context.heap EXCEPT
                           ![step_context.ref].current_step_id = sid,
                           ![step_context.ref].progress_tracker = "pipeline"],
                       orig, Append(ws, PendingWorker(step_context.ref)), n)

\* A non-empty group: run leaves the id of the last sub_step in
\* current_context._current_step_id; execute takes the snapshot and submits
\* every step.
GroupSubmit ==
    /\ AtEntry
    /\ plan[step_index].par
    /\ plan[step_index].n > 0
    /\ LET h == [heap EXCEPT ![current_context].current_step_id =
                                StepId(step_index, plan[step_index].n)]
           original == DeepCopy(h, current_context)
           sub == SubmitAll(original.heap, original.ref, <<>>, plan[step_index].n)
       IN  /\ heap' = sub.heap
           /\ original_context' = original.ref
           /\ workers' = sub.workers
    /\ completed' = <<>>
    /\ snapshot' = [results |-> heap[current_context].results,
                    errors |-> heap[current_context].errors]
    /\ pc' = "collect"
    /\ current_step' = step_index
    /\ attempted' = Append(attempted, step_index)
    /\ UNCHANGED <<trace, config, current_context, step_index, exc, ret, history,
                   step_progress, is_running, status, observed>>

Pending == {j \in DOMAIN workers : workers[j].st = "pending"}

\* What the steps of the group did, by index.
WorkerBehaviours ==
    [j \in DOMAIN workers |->
        Did(workers[j].op, workers[j].raised, workers[j].critical)]

\* A pool thread runs task_executor.execute(step, step_context) and the
\* future finishes.  Workers that are still running when the deadline has
\* passed run to their end.
WorkerRun(j) ==
    /\ pc \in {"collect", "timedout"}
    /\ j \in Pending
    /\ \E b \in Behaviours :
        LET sid == StepId(step_index, j)
            r == TaskExecutorExecute(heap, workers[j].ctx, b.op, sid, j,
                                     b.raises, b.critical)
        IN  /\ heap' = r.heap
            /\ workers' = [workers EXCEPT ![j] =
                              [ctx |-> workers[j].ctx, st |-> "done", op |-> b.op,
                               raised |-> b.raises, critical |-> b.critical,
                               err |-> r.exc]]
            /\ invoked' = invoked \cup {sid}
            /\ raised' = IF b.raises THEN raised \cup {Record(sid, b)} ELSE raised
            /\ step_progress' =
                   ContextUpdateStepProgress(heap[workers[j].ctx], step_progress,
                                             b.progress)
    /\ completed' = IF pc = "collect" THEN Append(completed, j) ELSE completed
    /\ UNCHANGED <<trace, config, current_context, pc, step_index, exc, ret,
                   original_context, snapshot, pos_ok, pos_failed, ok_results,
                   lifecycle, status, observed, attempted>>

\* as_completed(futures, timeout=config.timeout) raises TimeoutError while
\* futures are unfinished.
Timeout ==
    /\ pc = "collect"
    /\ timeout
    /\ Pending # {}
    /\ pc' = "timedout"
    /\ UNCHANGED <<trace, config, heap, current_context, step_index, exc, ret, group,
                   history, step_progress, lifecycle, status, observed,
                   attempted>>

\* TimeoutRaise not waiting for the workers.
TimeoutRaise_NoWait ==
    /\ pc = "timedout"
    /\ exc' = TimeoutErr(step_index)
    /\ ret' = 0
    /\ pc' = "after"
    /\ trace' = Traced(trace, WorkerBehaviours, completed, TRUE)
    /\ UNCHANGED <<config, heap, current_context, step_index, group, history,
                   step_progress, lifecycle, status, observed, attempted>>

\* Leaving the `with ThreadPoolExecutor` block waits for every worker; then
\* the TimeoutError leaves execute.
TimeoutRaise ==
    /\ pc = "timedout"
    /\ Pending = {}
    /\ exc' = TimeoutErr(step_index)
    /\ ret' = 0
    /\ pc' = "after"
    /\ trace' = Traced(trace, WorkerBehaviours, completed, TRUE)
    /\ UNCHANGED <<config, heap, current_context, step_index, group, history,
                   step_progress, lifecycle, status, observed, attempted>>

\* step_success, in the order the futures were yielded.
StepSuccess == [i \in 1..Len(completed) |-> workers[completed[i]].err = NoExc]

\* step_contexts: the contexts of the futures whose result() did not raise.
StepContexts ==
    LET ok == SelectSeq(completed, LAMBDA j : workers[j].err = NoExc)
    IN  [i \in 1..Len(ok) |-> heap[workers[ok[i]].ctx]]

\* GroupSucceeded with `any` taken for both operators.
GroupSucceeded_Any(step_success, op) ==
    \E i \in DOMAIN step_success : step_success[i]

\* `all(step_success)` for AND, `any(step_success)` for OR.
GroupSucceeded(step_success, op) ==
    IF op = "and"
    THEN \A i \in DOMAIN step_success : step_success[i]
    ELSE \E i \in DOMAIN step_success : step_success[i]

\* Every future has been yielded: the policy is evaluated and the contexts
\* of the successful steps are merged.
JoinGroup ==
    /\ pc = "collect"
    /\ Pending = {}
    /\ IF GroupSucceeded(StepSuccess, operator)
       THEN LET merged == MergeContexts(heap, original_context, StepContexts)
            IN  /\ heap' = merged.heap
                /\ ret' = merged.ref
                /\ exc' = NoExc
       ELSE /\ exc' = GroupErr(step_index)
            /\ ret' = 0
            /\ heap' = heap
    /\ pc' = "after"
    /\ trace' = Traced(trace, WorkerBehaviours, completed, FALSE)
    /\ UNCHANGED <<config, current_context, step_index, group, history,
                   step_progress, lifecycle, status, observed, attempted>>

----------------------------------------------------------------------------
\* Pipeline.run, after the executor call.

\* The name of plan position pos.
PositionName(pos) ==
    IF plan[pos].par THEN GroupName(pos - 1) ELSE StepName(StepId(pos, 1))

\* self._progress_callback(step_index, self._total_steps, step_name,
\* overall_progress), with the 0-based step_index of the source.
CallbackCall(pos, sp) ==
    [step_index |-> pos - 1, total_steps |-> Len(plan),
     step_name |-> PositionName(pos),
     overall_progress |-> GetOverallProgress(plan, sp)]

\* NextPosition leaving one position out.
NextPosition_Skip(index) == index + 2

\* The `for step_index, step in enumerate(self.steps)` loop moves on.
NextPosition(index) == index + 1

\* AutoComplete doing nothing.
AutoComplete_None(sp, pos) == sp

\* AutoComplete for the first step of the position only.
AutoComplete_FirstOnly(sp, pos) ==
    IF plan[pos].n = 0 THEN sp ELSE UpdateStepProgress(sp, StepId(pos, 1), 100)

\* update_step_progress(step_id, 100.0) for the step, or for every sub_step
\* of the group, at position pos.
AutoComplete(sp, pos) == CompleteSteps(sp, pos, plan[pos].n)

\* NotifyObserver calling the callback twice.
NotifyObserver_Twice(obs, pos, sp) ==
    Append(Append(obs, CallbackCall(pos, sp)), CallbackCall(pos, sp))

\* `if self._progress_callback:` the callback is called with the overall
\* progress read from the tracker.
NotifyObserver(obs, pos, sp) == Append(obs, CallbackCall(pos, sp))

\* The call returned: current_context is rebound to what it returned, the
\* steps of the position are completed to 100, the progress callback is
\* called and the loop goes on.
PositionOk ==
    /\ pc = "after"
    /\ exc = NoExc
    /\ current_context' = ret
    /\ heap' = Keep(heap, {context, ret})
    /\ ret' = 0
    /\ step_index' = NextPosition(step_index)
    /\ pc' = "dispatch"
    /\ original_context' = 0
    /\ workers' = <<>>
    /\ completed' = <<>>
    /\ snapshot' = NoSnapshot
    /\ pos_ok' = pos_ok \cup {step_index}
    /\ ok_results' = heap[ret].results
    /\ step_progress' = AutoComplete(step_progress, step_index)
    /\ observed' = NotifyObserver(observed, step_index, step_progress')
    /\ UNCHANGED <<trace, config, exc, invoked, raised, pos_failed, lifecycle, status,
                   attempted>>

\* PositionExcept with the `if self.config.fail_fast: raise` left out.
PositionExcept_NoRaise ==
    /\ pc = "after"
    /\ exc # NoExc
    /\ pc' = "dispatch"
    /\ heap' = Keep([heap EXCEPT ![current_context].errors = Append(@, exc)],
                    {context, current_context})
    /\ exc' = NoExc
    /\ step_index' = NextPosition(step_index)
    /\ ret' = 0
    /\ original_context' = 0
    /\ workers' = <<>>
    /\ completed' = <<>>
    /\ snapshot' = NoSnapshot
    /\ pos_failed' = pos_failed \cup {step_index}
    /\ UNCHANGED <<trace, config, current_context, invoked, raised, pos_ok, ok_results,
                   step_progress, lifecycle, status, observed, attempted>>

\* PositionExcept raising whatever fail_fast says.
PositionExcept_AlwaysRaise ==
    /\ pc = "after"
    /\ exc # NoExc
    /\ pc' = "raised"
    /\ heap' = Keep(heap, {context, current_context})
    /\ is_running' = FALSE
    /\ current_step' = 0
    /\ ret' = 0
    /\ original_context' = 0
    /\ workers' = <<>>
    /\ completed' = <<>>
    /\ snapshot' = NoSnapshot
    /\ pos_failed' = pos_failed \cup {step_index}
    /\ UNCHANGED <<trace, config, current_context, invoked, raised, pos_ok, ok_results,
                   exc, step_index, step_progress, status, observed, attempted>>

\* `except Exception as e`: re-raised under fail_fast (the `finally` clears
\* _is_running and _current_step), else appended to current_context.errors
\* and the loop goes on.
PositionExcept ==
    /\ pc = "after"
    /\ exc # NoExc
    /\ IF fail_fast
       THEN /\ pc' = "raised"
            /\ heap' = Keep(heap, {context, current_context})
            /\ is_running' = FALSE
            /\ current_step' = 0
            /\ UNCHANGED <<exc, step_index>>
       ELSE /\ pc' = "dispatch"
            /\ heap' = Keep([heap EXCEPT ![current_context].errors = Append(@, exc)],
                            {context, current_context})
            /\ exc' = NoExc
            /\ step_index' = NextPosition(step_index)
            /\ UNCHANGED lifecycle
    /\ ret' = 0
    /\ original_context' = 0
    /\ workers' = <<>>
    /\ completed' = <<>>
    /\ snapshot' = NoSnapshot
    /\ pos_failed' = pos_failed \cup {step_index}
    /\ UNCHANGED <<trace, config, current_context, invoked, raised, pos_ok, ok_results,
                   step_progress, status, observed, attempted>>

\* RunReturn without the `finally`.
RunReturn_NoFinally ==
    /\ pc = "dispatch"
    /\ step_index > Len(plan)
    /\ ret' = current_context
    /\ pc' = "returned"
    /\ UNCHANGED <<trace, config, heap, current_context, step_index, exc, group, history,
                   step_progress, lifecycle, status, observed, attempted>>

\* The loop is over: `return current_context`, through the `finally`.
RunReturn ==
    /\ pc = "dispatch"
    /\ step_index > Len(plan)
    /\ ret' = current_context
    /\ pc' = "returned"
    /\ is_running' = FALSE
    /\ current_step' = 0
    /\ UNCHANGED <<trace, config, heap, current_context, step_index, exc, group, history,
                   step_progress, status, observed, attempted>>

----------------------------------------------------------------------------
\* Pipeline.get_status, called by another thread at any moment.  The tracker
\* is read twice, each time under its lock; _current_step is read with the
\* first and _is_running with the second.

\* current_step_name.
CurrentStepName ==
    IF current_step # 0 /\ current_step - 1 < Len(plan)
    THEN PositionName(current_step)
    ELSE NoName

\* Pipeline.is_running().
IsRunning == is_running

\* Pipeline.get_current_step().
GetCurrentStep ==
    IF current_step # 0 /\ current_step - 1 < Len(plan)
    THEN IF plan[current_step].par
         THEN GroupName(current_step - 1)
         ELSE StepName(StepId(current_step, 1))
    ELSE NoName

\* The call up to get_overall_progress.
GetStatusProgress ==
    /\ status.at = "none"
    /\ status' = [at |-> "progress",
                  progress |-> GetOverallProgress(plan, step_progress),
                  current_step |-> CurrentStepName,
                  is_running |-> FALSE,
                  step_details |-> <<>>]
    /\ UNCHANGED <<trace, config, heap, current_context, pc, step_index, exc, ret, group,
                   history, step_progress, lifecycle, observed, attempted>>

\* The rest of the call: get_step_details, and the dict is returned.
GetStatusReturn ==
    /\ status.at = "progress"
    /\ status' = [status EXCEPT !.at = "returned",
                                !.is_running = is_running,
                                !.step_details = GetStepDetails(plan, step_progress)]
    /\ UNCHANGED <<trace, config, heap, current_context, pc, step_index, exc, ret, group,
                   history, step_progress, lifecycle, observed, attempted>>

\* The caller has the dict; it may call get_status again.
GetStatusTaken ==
    /\ status.at = "returned"
    /\ status' = NoStatus
    /\ UNCHANGED <<trace, config, heap, current_context, pc, step_index, exc, ret, group,
                   history, step_progress, lifecycle, observed, attempted>>

Next ==
    \/ RunStart
    \/ SerialExecute
    \/ ParallelExecuteEmpty
    \/ GroupSubmit
    \/ \E j \in DOMAIN workers : WorkerRun(j)
    \/ Timeout
    \/ TimeoutRaise
    \/ JoinGroup
    \/ PositionOk
    \/ PositionExcept
    \/ RunReturn

Spec == Init /\ [][Next]_vars

\* The construction of a Pipeline from steps whose ids the caller chose
\* freely among a few: Pipeline(steps, config).

\* The ids the caller gives to the steps.
CallerIds == {StepId(1, 1), StepId(1, 2)}

\* The ways of giving ids to the steps of a plan.
StepIdChoices(p) ==
    {ids \in [DOMAIN p -> UNION {[1..n -> CallerIds] : n \in 0..MaxSteps}] :
        \A pos \in DOMAIN p : DOMAIN ids[pos] = 1..p[pos].n}

\* The steps have been made and Pipeline(...) has not been called yet.
InitConstruct ==
    /\ plan \in Plans
    /\ step_ids \in StepIdChoices(plan)
    /\ fail_fast \in BOOLEAN
    /\ \E c \in ParallelConfigs(plan) :
        /\ operator = c.operator
        /\ timeout = c.timeout
    /\ kind \in Kinds
    /\ context = 1
    /\ \E c \in EntryContexts(kind) :
        /\ heap = [r \in {context} |->
                      PipelineContext(context, context, [k \in Keys |-> c.v],
                                      c.errors, c.progress_tracker,
                                      c.current_step_id)]
        /\ entry_errors = c.errors
        /\ ok_results = [k \in Keys |-> c.v]
    /\ current_context = 0
    /\ pc = "new"
    /\ step_index = 0
    /\ exc = NoExc
    /\ ret = 0
    /\ original_context = 0
    /\ workers = <<>>
    /\ completed = <<>>
    /\ step_progress = <<>>
    /\ is_running = FALSE
    /\ current_step = 0
    /\ status = NoStatus
    /\ observed = <<>>
    /\ attempted = <<>>
    /\ snapshot = NoSnapshot
    /\ invoked = {}
    /\ raised = {}
    /\ pos_ok = {}
    /\ pos_failed = {}
    /\ finished = <<>>
    /\ trace = NoTrace

\* Pipeline.__init__: steps and config are stored, _current_step is None,
\* _is_running is False and the tracker is made; the ids are not compared.
Construct ==
    /\ pc = "new"
    /\ pc' = "idle"
    /\ step_progress' = <<>>
    /\ is_running' = FALSE
    /\ current_step' = 0
    /\ UNCHANGED <<trace, config, heap, current_context, step_index, exc, ret, group,
                   history, status, observed, attempted>>

SpecConstruct == InitConstruct /\ [][Construct]_vars

\* A Pipeline that is run a second time.  The caller passes the context of
\* the first call again; the Pipeline object, and with it the tracker, is the
\* same, and everything local to the first call is gone.
RunAgain ==
    /\ pc \in {"returned", "raised"}
    /\ finished = <<>>
    /\ finished' = <<[returned |-> pc = "returned", pos_failed |-> pos_failed]>>
    /\ pc' = "idle"
    /\ heap' = Keep(heap, {context})
    /\ entry_errors' = heap[context].errors
    /\ ok_results' = heap[context].results
    /\ current_context' = 0
    /\ step_index' = 0
    /\ exc' = NoExc
    /\ ret' = 0
    /\ observed' = <<>>
    /\ attempted' = <<>>
    /\ invoked' = {}
    /\ raised' = {}
    /\ pos_ok' = {}
    /\ pos_failed' = {}
    /\ UNCHANGED <<trace, plan, step_ids, fail_fast, operator, timeout, kind, context,
                   group, step_progress, lifecycle, status>>

\* The tracker does not meet the results, so the runs that are repeated are
\* those whose steps report progress.
InitRerun ==
    /\ Init
    /\ kind = "progress"

NextRerun ==
    \/ Next
    \/ RunAgain

SpecRerun == InitRerun /\ [][NextRerun]_vars

----------------------------------------------------------------------------
\* PipelineExecutor.execute(steps, context, config), the orchestrator without
\* tracker, status and observer, as a function of what the steps do: it is
\* given the context run was given and, position by position, steps that
\* behave as those of the trace and complete in the same order.

\* The submit loop of ParallelTaskExecutor.execute called without a tracker:
\* the copies hold the step's id and no tracker.  The result is the heap
\* afterwards and the references of the copies.
RECURSIVE ExecutorSubmitAll(_, _, _, _, _)
ExecutorSubmitAll(h, orig, ctxs, pos, n) ==
    IF Len(ctxs) = n THEN [heap |-> h, ctxs |-> ctxs]
    ELSE LET step_context == DeepCopy(h, orig)
             sid == StepId(pos, Len(ctxs) + 1)
         IN  ExecutorSubmitAll([step_context.heap EXCEPT
                                   ![step_context.ref].current_step_id = sid,
                                   ![step_context.ref].progress_tracker = "none"],
                               orig, Append(ctxs, step_context.ref), pos, n)

\* The workers of the group at pos, from the j-th on, run
\* task_executor.execute on their copies.  The result is the heap afterwards
\* and the exception of each future.
RECURSIVE ExecutorRunWorkers(_, _, _, _, _, _)
ExecutorRunWorkers(h, ctxs, pos, steps, j, errs) ==
    IF j > Len(ctxs) THEN [heap |-> h, errs |-> errs]
    ELSE LET r == TaskExecutorExecute(h, ctxs[j], steps[j].op, StepId(pos, j), j,
                                      steps[j].raises, steps[j].critical)
         IN  ExecutorRunWorkers(r.heap, ctxs, pos, steps, j + 1, Append(errs, r.exc))

\* parallel_executor.execute(step, current_context, config.parallel_config).
ExecutorParallel(h, cur, pos, did) ==
    IF plan[pos].n = 0 THEN [heap |-> h, ref |-> cur, exc |-> NoExc]
    ELSE LET original == DeepCopy(h, cur)
             sub == ExecutorSubmitAll(original.heap, original.ref, <<>>, pos,
                                      plan[pos].n)
             ran == ExecutorRunWorkers(sub.heap, sub.ctxs, pos, did.steps, 1, <<>>)
             step_success ==
                 [i \in 1..Len(did.order) |-> ran.errs[did.order[i]] = NoExc]
             ok == SelectSeq(did.order, LAMBDA j : ran.errs[j] = NoExc)
             step_contexts == [i \in 1..Len(ok) |-> ran.heap[sub.ctxs[ok[i]]]]
         IN  IF did.timedout
             THEN [heap |-> ran.heap, ref |-> 0, exc |-> TimeoutErr(pos)]
             ELSE IF ~GroupSucceeded(step_success, operator)
             THEN [heap |-> ran.heap, ref |-> 0, exc |-> GroupErr(pos)]
             ELSE LET merged == MergeContexts(ran.heap, original.ref, step_contexts)
                  IN  [heap |-> merged.heap, ref |-> merged.ref, exc |-> NoExc]

\* task_executor.execute(step, current_context).
ExecutorSerial(h, cur, pos, did) ==
    LET r == TaskExecutorExecute(h, cur, did.steps[1].op, StepId(pos, 1), 1,
                                 did.steps[1].raises, did.steps[1].critical)
    IN  [heap |-> r.heap, ref |-> cur, exc |-> r.exc]

\* ExecutorExcept going on without keeping the exception.
ExecutorExcept_NoAppend(h, cur, e) ==
    IF fail_fast
    THEN [heap |-> h, current_context |-> cur, exc |-> e]
    ELSE [heap |-> h, current_context |-> cur, exc |-> NoExc]

\* `except Exception as e`: re-raised under fail_fast, else appended to
\* current_context.errors.
ExecutorExcept(h, cur, e) ==
    IF fail_fast
    THEN [heap |-> h, current_context |-> cur, exc |-> e]
    ELSE [heap |-> [h EXCEPT ![cur].errors = Append(@, e)],
          current_context |-> cur, exc |-> NoExc]

\* One turn of the loop over steps; nothing more is done once an exception
\* has left execute.
ExecutorPosition(x, pos, did) ==
    IF x.exc # NoExc THEN x
    ELSE LET r == IF plan[pos].par
                  THEN ExecutorParallel(x.heap, x.current_context, pos, did)
                  ELSE ExecutorSerial(x.heap, x.current_context, pos, did)
         IN  IF r.exc = NoExc
             THEN [heap |-> r.heap, current_context |-> r.ref, exc |-> NoExc]
             ELSE ExecutorExcept(r.heap, x.current_context, r.exc)

\* The loop over the first n positions.
RECURSIVE ExecutorLoop(_, _, _)
ExecutorLoop(x, positions, n) ==
    IF n = 0 THEN x
    ELSE ExecutorPosition(ExecutorLoop(x, positions, n - 1), n, positions[n])

\* PipelineExecutor.execute on the entry context and the positions of the
\* trace t: the heap afterwards, current_context, and the exception that
\* left execute (NoExc when it has not raised).
PipelineExecutorExecute(t) ==
    ExecutorLoop([heap |-> <<t.entry>>, current_context |-> 1, exc |-> NoExc],
                 t.positions, Len(t.positions))

\* The runs whose trace is kept, to be set against PipelineExecutor.execute.
InitAgree == InitWith([kept |-> TRUE, entry |-> heap[context], positions |-> <<>>])

SpecAgree == InitAgree /\ [][Next]_vars

\* The runs in which another thread calls get_status.  What get_status
\* returns does not depend on the results, so these are the runs whose steps
\* report progress.
InitStatus ==
    /\ Init
    /\ kind = "progress"

\* The dict get_status returned is a copy nothing changes any more, so the
\* run goes on once the caller has taken it.
NextStatus ==
    \/ status.at # "returned" /\ Next
    \/ GetStatusProgress
    \/ GetStatusReturn
    \/ GetStatusTaken

SpecStatus == InitStatus /\ [][NextStatus]_vars

----------------------------------------------------------------------------
\* Properties.

\* The errors and results the caller can reach through the object it passed.
CallerErrors == heap[context].errors
CallerResults == heap[context].results

\* An entry of errors matches an exception when it has the same origin: the
\* same step, or the same group (a timeout is a failure of its group).
Matches(e, x) ==
    /\ e.origin = x.origin
    /\ \/ e.kind = x.kind
       \/ {e.kind, x.kind} \subseteq {"group", "timeout"}

\* The positions whose executor call has raised.
FailedPositions ==
    pos_failed \cup (IF pc = "after" /\ exc # NoExc THEN {step_index} ELSE {})

\* C1: whenever Pipeline.run has raised an exception, the errors of the
\* context the caller passed in hold an entry that matches it.
C1_ErrorAccompaniment ==
    pc = "raised" => \E i \in DOMAIN CallerErrors : Matches(CallerErrors[i], exc)

\* C2: under fail_fast, once the executor call of a position has raised, no
\* step of a later position has had its run invoked.
C2_FailFastStop ==
    fail_fast =>
        \A p \in FailedPositions : \A sid \in invoked : PosOf(sid) <= p

\* run has raised at a position that is not the last, after invoking a step.
C2_Witness ==
    /\ pc = "raised"
    /\ step_index < Len(plan)
    /\ invoked # {}

\* The non-critical failures inside positions that were processed successfully.
NonCriticalInOk == {r \in raised : ~r.critical /\ PosOf(r.id) \in pos_ok}

\* C3: with fail_fast off, when run has returned, errors has grown by the
\* number of failed positions plus the number of non-critical step failures
\* inside successful positions.
C3_FailSlowErrorCount ==
    (pc = "returned" /\ ~fail_fast) =>
        Len(heap[ret].errors) - Len(entry_errors)
            = Cardinality(pos_failed) + Cardinality(NonCriticalInOk)

\* ParallelTaskExecutor.execute has returned or raised for a non-empty group.
GroupExit == pc = "after" /\ plan[step_index].par /\ plan[step_index].n > 0

\* Worker j's outcome is Ok: TaskExecutor.execute did not raise for its step.
Ok(j) == ~(workers[j].raised /\ workers[j].critical)
OkWorkers == {j \in DOMAIN workers : Ok(j)}

PolicyMet ==
    IF operator = "and" THEN OkWorkers = DOMAIN workers ELSE OkWorkers # {}

\* execute returned a newly merged context.
ReturnedMerged ==
    /\ exc = NoExc
    /\ ret \in DOMAIN heap \ {context, current_context, original_context}
    /\ \A j \in DOMAIN workers : ret # workers[j].ctx

\* execute raised one error of the group-failure kind.
RaisedGroupFailure ==
    /\ ret = 0
    /\ exc.kind \in {"group", "timeout"}
    /\ exc.origin = step_index

PolicyDecides ==
    /\ \A j \in DOMAIN workers : (workers[j].err = NoExc) <=> Ok(j)
    /\ PolicyMet => ReturnedMerged
    /\ ~PolicyMet => RaisedGroupFailure

\* C4 as stated: for a non-empty group, execute returns a merged context iff
\* the AND/OR policy is met by the workers' outcomes, and raises a single
\* group-failure error otherwise.
C4_GroupPolicy == GroupExit => PolicyDecides

\* C4 as amended: the same, provided the group deadline did not elapse while
\* futures were unfinished.
C4_GroupPolicyNoTimeout == (GroupExit /\ exc.kind # "timeout") => PolicyDecides

\* An OR group has succeeded although one of its workers raised.
C4_Witness ==
    /\ GroupExit
    /\ operator = "or"
    /\ ReturnedMerged
    /\ OkWorkers # DOMAIN workers

----------------------------------------------------------------------------
\* The merge of a successful group, seen when execute has just returned.

GroupMerged == GroupExit /\ ReturnedMerged

Merged == heap[ret]
Original == heap[original_context]
WorkerCtx(j) == heap[workers[j].ctx]

\* The place of worker j in the order the futures were yielded.
YieldPos(j) == CHOOSE i \in DOMAIN completed : completed[i] = j

\* The Ok workers whose step stored a value under the key.
Writers == {j \in OkWorkers : workers[j].op = "set"}

LastWriter == CHOOSE j \in Writers : \A w \in Writers : YieldPos(w) <= YieldPos(j)

\* C5: for an opaque value (string, boolean, ...), the merged value is the one
\* written by the last worker, in completion order, among those that wrote
\* the key; a single writer's value survives any order of its siblings.
C5_LastWriterWins ==
    (GroupMerged /\ kind = "opaque" /\ Writers # {}) =>
        \A k \in Keys :
            Merged.results[k] = Opaque(StepId(step_index, LastWriter))

\* The sum over the workers in S of max(v_i - v0, 0) for key k.
RECURSIVE IncrementSum(_, _)
IncrementSum(k, S) ==
    IF S = {} THEN 0
    ELSE LET j == CHOOSE x \in S : TRUE
             d == WorkerCtx(j).results[k].n - Original.results[k].n
         IN  (IF d > 0 THEN d ELSE 0) + IncrementSum(k, S \ {j})

\* C6: for a numeric key (absent counting as 0), the merged value is the
\* original value plus the sum over the Ok workers of their positive
\* increments, whatever the completion order.
C6_NumericSum ==
    (GroupMerged /\ kind = "num") =>
        \A k \in Keys :
            /\ Merged.results[k].t \in {"num", "absent"}
            /\ Merged.results[k].t = "absent" => Original.results[k].t = "absent"
            /\ Merged.results[k].n
                   = Original.results[k].n + IncrementSum(k, OkWorkers)

\* Two workers of a merged group have each added to a number that was there.
C6_Witness ==
    /\ GroupMerged
    /\ kind = "num"
    /\ \A k \in Keys : Original.results[k].t = "num"
    /\ \E i, j \in OkWorkers :
        i # j /\ workers[i].op = "inc" /\ workers[j].op = "inc"

\* The items worker j's step appended, in the order it appended them.
Appended(j) ==
    CASE workers[j].op = "app1" -> <<Item(StepId(step_index, j), 1)>>
      [] workers[j].op = "app2" -> <<Item(StepId(step_index, j), 1),
                                     Item(StepId(step_index, j), 2)>>
      [] OTHER -> <<>>

\* The items of the Ok workers, worker after worker in the order given.
RECURSIVE AppendedBy(_)
AppendedBy(order) ==
    IF order = <<>> THEN <<>>
    ELSE (IF Ok(Head(order)) THEN Appended(Head(order)) ELSE <<>>)
         \o AppendedBy(Tail(order))

Count(x, s) == Cardinality({i \in DOMAIN s : s[i] = x})

\* C7: for a list key, the merged list is the original list (empty when the
\* key was absent) followed by the items each Ok worker appended, worker
\* after worker in completion order; every appended item is there once.
C7_ListMerge ==
    (GroupMerged /\ kind = "list") =>
        \A k \in Keys :
            /\ Merged.results[k].l = Original.results[k].l \o AppendedBy(completed)
            /\ \A j \in OkWorkers : \A x \in Range(Appended(j)) :
                   Count(x, Merged.results[k].l) = 1

\* Two workers of a merged group have appended to a list that was not empty.
C7_Witness ==
    /\ GroupMerged
    /\ kind = "list"
    /\ \A k \in Keys : Original.results[k].l # <<>>
    /\ \E i, j \in OkWorkers :
        i # j /\ workers[i].op = "app2" /\ workers[j].op = "app1"

----------------------------------------------------------------------------
\* What the context of worker j holds once its step has run on the snapshot.
OwnResults(j) ==
    [k \in Keys |-> ApplyOp(snapshot.results[k], workers[j].op,
                            StepId(step_index, j), j)]

OwnErrors(j) ==
    snapshot.errors
        \o (IF workers[j].raised THEN <<StepErr(StepId(step_index, j))>> ELSE <<>>)

\* C8: while a group is executed, a worker's context holds the results and
\* errors the group began with until its own step runs, and after that only
\* what its own step did to them; the original, and the context the pipeline
\* holds, stay as they were at least until the merge.
C8_ContextIsolation ==
    workers # <<>> =>
        /\ Original.results = snapshot.results
        /\ Original.errors = snapshot.errors
        /\ heap[current_context].results = snapshot.results
        /\ heap[current_context].errors = snapshot.errors
        /\ \A j \in DOMAIN workers :
            IF workers[j].st = "pending"
            THEN /\ WorkerCtx(j).results = snapshot.results
                 /\ WorkerCtx(j).errors = snapshot.errors
            ELSE /\ WorkerCtx(j).results = OwnResults(j)
                 /\ WorkerCtx(j).errors = OwnErrors(j)

\* One worker has changed its results and raised while a sibling has not run.
C8_Witness ==
    /\ pc = "collect"
    /\ \E i, j \in DOMAIN workers :
        /\ workers[i].st = "done"
        /\ workers[i].op # "none"
        /\ workers[i].raised
        /\ workers[j].st = "pending"

\* C9: when run has returned, the returned errors hold the failure of every
\* worker that raised inside an OR group that succeeded.
C9_PartialSuccessKeepsErrors ==
    pc = "returned" =>
        \A r \in raised :
            (PosOf(r.id) \in pos_ok /\ plan[PosOf(r.id)].par /\ operator = "or")
                => StepErr(r.id) \in Range(heap[ret].errors)

\* C10: when run has raised under fail_fast and the failing position left
\* the results as the earlier positions returned them, the context the
\* caller passed in holds those results.
C10_ResultsSurviveFailFast ==
    (pc = "raised" /\ heap[current_context].results = ok_results)
        => CallerResults = ok_results

----------------------------------------------------------------------------
\* The progress callback and the tracker.

\* The plan positions of the callback calls received so far.
ObservedPositions == [i \in DOMAIN observed |-> observed[i].step_index + 1]

\* C11: the callback has been called once for each position whose executor
\* call returned (a non-critical raise included), never for a position whose
\* executor call raised, and with strictly increasing plan indices.
C11_ObserverContract ==
    /\ Len(observed) = Cardinality(pos_ok)
    /\ \A i \in DOMAIN observed :
        /\ ObservedPositions[i] \in pos_ok
        /\ ObservedPositions[i] \notin FailedPositions
    /\ \A i, j \in DOMAIN observed :
        i < j => observed[i].step_index < observed[j].step_index

\* The callback was called for a position whose non-critical step raised and
\* not for a position that failed.
C11_Witness ==
    /\ Len(observed) = Cardinality(pos_ok)
    /\ pos_failed # {}
    /\ \E r \in raised : ~r.critical /\ PosOf(r.id) \in Range(ObservedPositions)

\* run has returned and the executor call of every position returned.
AllPositionsOk == pc = "returned" /\ pos_failed = {}

NoEmptyGroup == \A pos \in DOMAIN plan : plan[pos].n > 0

\* The overall progress values the callback received do not decrease and the
\* last of them is 100.
MonotoneTo100 ==
    /\ \A i, j \in DOMAIN observed :
        i < j => observed[i].overall_progress <= observed[j].overall_progress
    /\ observed # <<>> =>
        observed[Len(observed)].overall_progress = 100 * WeightDenominator(plan)

\* C12 as stated: over a run in which every position is processed
\* successfully, the overall progress values passed to the callback are
\* non-decreasing and the last one is 100.
C12_ProgressMonotone == AllPositionsOk => MonotoneTo100

\* C12 as amended: the same for the plans that have no empty group.
C12_ProgressMonotoneNoEmptyGroup ==
    (AllPositionsOk /\ NoEmptyGroup) => MonotoneTo100

\* A successful run of two positions: the callback saw the progress grow.
C12_Witness ==
    /\ AllPositionsOk
    /\ NoEmptyGroup
    /\ Len(observed) > 1
    /\ observed[1].overall_progress < observed[Len(observed)].overall_progress

\* The tracker holds 100 for step sid.
Completed(sid) == sid \in DOMAIN step_progress /\ step_progress[sid] = 100

\* C13 as stated: after run has returned normally, the internal progress of
\* every step id of the plan is 100.
C13_AutoCompletion ==
    pc = "returned" => \A sid \in StepIds(plan) : Completed(sid)

\* C13 as amended: after run has returned normally, the internal progress is
\* 100 for every step id of a position whose executor call returned.
C13_AutoCompletionOfOkPositions ==
    pc = "returned" =>
        \A sid \in StepIds(plan) : PosOf(sid) \in pos_ok => Completed(sid)

\* run has returned after a group in which a worker raised was completed.
C13_Witness ==
    /\ pc = "returned"
    /\ \E r \in raised :
        /\ PosOf(r.id) \in pos_ok
        /\ plan[PosOf(r.id)].par
        /\ plan[PosOf(r.id)].n > 1

\* The weights of the plan sum to 100.
WeightsSumTo100 ==
    SumOver(CalculateWeights(plan), StepIds(plan)) = 100 * WeightDenominator(plan)

\* C14 as stated: for any plan, the weights assigned at construction sum to
\* 100 over all step ids.
C14_WeightSum == WeightsSumTo100

\* C14 as amended: the same for a plan that has at least one position and no
\* empty group.
C14_WeightSumNonEmpty == (plan # <<>> /\ NoEmptyGroup) => WeightsSumTo100

\* A plan with a group of several steps.
C14_Witness ==
    /\ NoEmptyGroup
    /\ \E pos \in DOMAIN plan : plan[pos].par /\ plan[pos].n > 1

----------------------------------------------------------------------------
\* TaskExecutor.execute, seen over the step in which it is called.

\* The reference of the context the step with id sid is executed on.
ExecutedOn(sid) ==
    IF plan[PosOf(sid)].par THEN workers[sid - PosOf(sid) * 10].ctx
    ELSE current_context

\* C15: when a non-critical step raises inside execute, the results of the
\* context are those it had on entry to execute.
C15_NoHalfWrittenResults ==
    [][\A r \in raised' \ raised :
          ~r.critical => heap'[ExecutedOn(r.id)].results
                             = heap[ExecutedOn(r.id)].results]_vars

\* The exception that left execute for the step with id sid.
Propagated(sid) ==
    IF plan[PosOf(sid)].par THEN workers[sid - PosOf(sid) * 10].err ELSE exc

\* C16: when step.run raises e, exactly e is appended to the errors of the
\* input context, and e leaves execute iff step.critical; this is so for
\* either value of fail_fast.
C16_CriticalityRouting ==
    [][\A r \in raised' \ raised :
          /\ heap'[ExecutedOn(r.id)].errors
                 = Append(heap[ExecutedOn(r.id)].errors, StepErr(r.id))
          /\ Propagated(r.id)' = (IF r.critical THEN StepErr(r.id) ELSE NoExc)]_vars

\* Under fail_fast a non-critical step has raised and run went on to a
\* critical step that raised.
C16_Witness ==
    /\ fail_fast
    /\ \E r \in raised : ~r.critical
    /\ \E r \in raised : r.critical

----------------------------------------------------------------------------
\* The walk over the plan.

Processed == pos_ok \cup pos_failed

\* C17: the positions are dispatched in plan order without a gap; a step
\* runs only once its position is dispatched, and a position is dispatched
\* only when the one before it has been processed, all its steps having run.
C17_PlanOrder ==
    /\ \A i \in DOMAIN attempted : attempted[i] = i
    /\ \A sid \in invoked : PosOf(sid) \in Range(attempted)
    /\ \A i \in DOMAIN attempted :
        i < Len(attempted) =>
            /\ i \in Processed
            /\ i \in pos_failed => ~fail_fast
            /\ \A sid \in StepIds(plan) : PosOf(sid) = i => sid \in invoked
    /\ pc = "returned" => Len(attempted) = Len(plan)

\* A step of the second position has run after the first position failed.
C17_Witness ==
    /\ Len(attempted) > 1
    /\ 1 \in pos_failed
    /\ \E sid \in invoked : PosOf(sid) > 1

\* C18: when a group has failed its policy and fail_fast is off, the context
\* carried to the next position has the results the group began with, and
\* its errors are those the group began with and the group-failure entry.
C18_GroupFailureDiscards ==
    [][(GroupExit /\ exc.kind = "group" /\ ~fail_fast /\ pc' = "dispatch") =>
          /\ heap'[current_context'].results = snapshot.results
          /\ heap'[current_context'].errors = Append(snapshot.errors, exc)]_vars

\* An AND group has failed although a sibling wrote its result.
C18_Witness ==
    /\ GroupExit
    /\ exc.kind = "group"
    /\ ~fail_fast
    /\ \E j \in OkWorkers : workers[j].op # "none"

\* C19: with fail_fast off, run does not raise, and when it has returned every
\* position has been attempted once, in plan order.
C19_FailSlowContinuation ==
    ~fail_fast =>
        /\ pc # "raised"
        /\ pc = "returned" =>
            attempted = [i \in 1..Len(plan) |-> i]

\* run has returned after a first position that failed and a second one.
C19_Witness ==
    /\ ~fail_fast
    /\ pc = "returned"
    /\ 1 \in pos_failed
    /\ Len(attempted) > 1

\* C20: every recorded internal progress lies in [0,100], and so do the
\* overall progress and the internal progresses get_status returns.
C20_StatusInRange ==
    /\ \A sid \in DOMAIN step_progress :
        step_progress[sid] >= 0 /\ step_progress[sid] <= 100
    /\ status.at # "none" =>
        /\ status.progress >= 0
        /\ status.progress <= 100 * WeightDenominator(plan)
    /\ status.at = "returned" =>
        \A sid \in DOMAIN status.step_details :
            /\ status.step_details[sid].internal_progress >= 0
            /\ status.step_details[sid].internal_progress <= 100

\* get_status has returned while a worker that reported a value below 0 was
\* done and a sibling had not run.
C20_Witness ==
    /\ status.at = "returned"
    /\ status.is_running
    /\ Pending # {}
    /\ \E sid \in DOMAIN status.step_details :
        /\ sid \in DOMAIN step_progress
        /\ step_progress[sid] = 0

----------------------------------------------------------------------------
\* C21: is_running() is false and get_current_step() is None before the run
\* and after it, whether run returned or raised; while the executor call of
\* plan position i is under way or has just ended, is_running() is true and
\* get_current_step() is the id of the serial step at i, or the name
\* parallel_group_<i> (i counted from 0) of the group at i.
C21_RunLifecycle ==
    /\ pc \in {"idle", "returned", "raised"} =>
        /\ ~IsRunning
        /\ GetCurrentStep = NoName
    /\ pc \in {"collect", "timedout", "after"} =>
        /\ IsRunning
        /\ GetCurrentStep =
               (IF plan[step_index].par
                THEN [kind |-> "group", id |-> step_index - 1]
                ELSE [kind |-> "step", id |-> StepId(step_index, 1)])

\* run has raised out of a group at the second plan position.
C21_Witness ==
    /\ pc = "raised"
    /\ step_index = 2
    /\ plan[step_index].par
    /\ 1 \in pos_ok

----------------------------------------------------------------------------
\* Two steps of the plan have the same step_id.
DuplicateStepIds ==
    \E pos1, pos2 \in DOMAIN step_ids :
        \E j1 \in DOMAIN step_ids[pos1], j2 \in DOMAIN step_ids[pos2] :
            /\ <<pos1, j1>> # <<pos2, j2>>
            /\ step_ids[pos1][j1] = step_ids[pos2][j2]

\* C22: a Pipeline is never constructed from a plan in which two steps share
\* a step_id, so run is never callable on such a plan.
C22_DuplicateIdsRejected == pc # "new" => ~DuplicateStepIds

----------------------------------------------------------------------------
\* The worker indices in the order the steps were submitted.
SubmissionOrder == [j \in DOMAIN workers |-> j]

\* The contexts _merge_contexts is given when the futures are yielded in the
\* order given.
ContextsIn(order) ==
    LET ok == SelectSeq(order, LAMBDA j : workers[j].err = NoExc)
    IN  [i \in 1..Len(ok) |-> heap[workers[ok[i]].ctx]]

\* C23: on a fresh context, the results the group at the last plan position
\* leaves are those the same workers leave when they complete in the order
\* they were submitted: the final results do not depend on the completion
\* order.
C23_CompletionOrderIrrelevant ==
    (GroupMerged /\ step_index = Len(plan) /\ entry_errors = <<>>) =>
        Merged.results =
            MergeAll(Original, Original, ContextsIn(SubmissionOrder)).results

----------------------------------------------------------------------------
\* C24: the context run returns has the app_config and the logger of the
\* context run was called with: the same objects, not copies.
C24_OpaqueFieldsShared ==
    pc = "returned" =>
        /\ heap[ret].app_config = heap[context].app_config
        /\ heap[ret].logger_instance = heap[context].logger_instance

----------------------------------------------------------------------------
----------------------------------------------------------------------------
\* The workers whose step raised and is not critical.
NonCriticalRaisers ==
    {j \in DOMAIN workers : workers[j].raised /\ ~workers[j].critical}

----------------------------------------------------------------------------
\* The value a mapping holds under inner key i, as a sequence of length 1,
\* or the empty sequence when it holds none.
InnerValue(v, i) == IF v.t = "map" /\ i \in DOMAIN v.d THEN <<v.d[i]>> ELSE <<>>

\* The Ok workers whose step added or changed inner entry i of key k.
Changers(k, i) ==
    {j \in OkWorkers :
        InnerValue(WorkerCtx(j).results[k], i) # InnerValue(Original.results[k], i)}

\* C27: in the merged mapping, an inner entry that exactly one worker added
\* or changed has that worker's value, and an inner entry no worker touched
\* has the original value.
C27_MappingMerge ==
    (GroupMerged /\ kind = "map") =>
        \A k \in Keys : \A i \in InnerKeys :
            /\ \A j \in OkWorkers :
                Changers(k, i) = {j} =>
                    InnerValue(Merged.results[k], i)
                        = InnerValue(WorkerCtx(j).results[k], i)
            /\ Changers(k, i) = {} =>
                InnerValue(Merged.results[k], i) = InnerValue(Original.results[k], i)

----------------------------------------------------------------------------
\* C28: outside ParallelTaskExecutor.execute no dispatched worker is still to
\* run: when execute returns or raises, also on timeout or policy failure,
\* every worker has finished, so none runs or reports progress later.
C28_JoinBeforeExit ==
    pc \notin {"collect", "timedout"} =>
        \A j \in DOMAIN workers : workers[j].st = "done"

\* execute has raised on a timeout that elapsed before any of its two
\* workers had finished.
C28_Witness ==
    /\ GroupExit
    /\ exc.kind = "timeout"
    /\ Len(workers) = 2
    /\ completed = <<>>
    /\ invoked # {}

----------------------------------------------------------------------------
\* The deadline of the group elapsed while futures were unfinished.
TimedOut == GroupExit /\ Len(completed) < Len(workers)

\* C29: when the deadline elapses, execute merges nothing and raises an
\* error of the kind a failed group raises.
C29_TimeoutIsGroupFailure ==
    TimedOut =>
        /\ ret = 0
        /\ exc.kind = "group"

----------------------------------------------------------------------------
\* The errors the Ok workers' steps raised, worker after worker in the order
\* given.
RECURSIVE ContributedErrors(_)
ContributedErrors(order) ==
    IF order = <<>> THEN <<>>
    ELSE (IF Ok(Head(order)) /\ workers[Head(order)].raised
          THEN <<StepErr(StepId(step_index, Head(order)))>>
          ELSE <<>>)
         \o ContributedErrors(Tail(order))

\* C30: the merged errors are the errors the context had when the group
\* began, followed by the errors of the Ok workers in completion order; no
\* error is there twice and none is missing.
C30_ErrorMerge ==
    GroupMerged => Merged.errors = snapshot.errors \o ContributedErrors(completed)

\* A group of two steps that both raised has been merged into a context that
\* already held an error.
C30_Witness ==
    /\ GroupMerged
    /\ snapshot.errors # <<>>
    /\ Len(ContributedErrors(completed)) = 2

----------------------------------------------------------------------------
\* The sum of the contribution fields of a step_details value.
ContributionSum(details) ==
    SumOver([sid \in DOMAIN details |-> details[sid].contribution], DOMAIN details)

\* C31: in the value get_status returns, progress is the sum of the
\* contributions of step_details.
C31_StatusSnapshotConsistent ==
    status.at = "returned" => status.progress = ContributionSum(status.step_details)

----------------------------------------------------------------------------
\* The first run of the Pipeline returned and none of its positions failed.
FirstRunSucceeded ==
    /\ finished # <<>>
    /\ finished[1].returned
    /\ finished[1].pos_failed = {}

\* The overall progress is 100.
ProgressIs100(progress) == progress = 100 * WeightDenominator(plan)

\* C32 as stated: after a fully successful run, the second run of the same
\* Pipeline starts with overall progress 100 and each of its observer calls
\* reports 100.
C32_TrackerPersists ==
    FirstRunSucceeded =>
        /\ pc = "idle" => ProgressIs100(GetOverallProgress(plan, step_progress))
        /\ \A i \in DOMAIN observed : ProgressIs100(observed[i].overall_progress)

\* C32 as amended: the same for a non-empty plan without empty groups, and
\* for the observer calls made while no position of the second run has
\* failed.
C32_TrackerPersistsWhileOk ==
    (FirstRunSucceeded /\ plan # <<>> /\ NoEmptyGroup) =>
        /\ pc = "idle" => ProgressIs100(GetOverallProgress(plan, step_progress))
        /\ \A i \in DOMAIN observed :
            (\A pos \in pos_failed : pos > observed[i].step_index + 1) =>
                ProgressIs100(observed[i].overall_progress)

\* The second run has called the observer for its first position, of a plan
\* of two, after a step of that position reported a progress of 0.
C32_Witness ==
    /\ FirstRunSucceeded
    /\ Len(plan) = 2
    /\ Len(observed) = 1
    /\ pc = "dispatch"
    /\ observed[1].overall_progress = 100 * WeightDenominator(plan)

----------------------------------------------------------------------------
\* The position being processed is an empty group.
AtEmptyGroup ==
    /\ step_index \in DOMAIN plan
    /\ plan[step_index].par
    /\ plan[step_index].n = 0

\* C33: at an empty group, execute returns the context it was given, no
\* object is changed, no step is invoked and the tracker is left alone; run
\* then keeps the context, calls the observer once for the position, and the
\* overall progress is what it was.
C33_EmptyGroupNoOp ==
    [][/\ (AtEmptyGroup /\ pc = "dispatch") =>
            /\ pc' = "after"
            /\ exc' = NoExc
            /\ ret' = current_context
            /\ heap' = heap
            /\ invoked' = invoked
            /\ step_progress' = step_progress
       /\ (AtEmptyGroup /\ pc = "after") =>
            /\ pc' = "dispatch"
            /\ current_context' = current_context
            /\ heap'[current_context] = heap[current_context]
            /\ invoked' = invoked
            /\ Len(observed') = Len(observed) + 1
            /\ observed'[Len(observed')].step_index = step_index - 1
            /\ observed'[Len(observed')].overall_progress
                   = GetOverallProgress(plan, step_progress)
            /\ GetOverallProgress(plan, step_progress')
                   = GetOverallProgress(plan, step_progress)]_vars

\* run has gone past an empty group at the first position, after calling the
\* observer for it.
C33_Witness ==
    /\ Len(plan) = 2
    /\ plan[1].par
    /\ plan[1].n = 0
    /\ pc = "dispatch"
    /\ step_index = 2
    /\ Len(observed) = 1

----------------------------------------------------------------------------
\* The tracker entries that differ between this state and the next.
ChangedEntries ==
    {sid \in DOMAIN step_progress' :
        sid \notin DOMAIN step_progress \/ step_progress'[sid] # step_progress[sid]}

\* C34: the context a step's run is invoked with holds the step's own id,
\* for the serial step and for every worker of a group; and a tracker entry
\* changes only when its own step runs or when run auto-completes the
\* position of the step.
C34_OwnStepId ==
    [][/\ \A j \in DOMAIN workers' :
            heap'[workers'[j].ctx].current_step_id = StepId(step_index', j)
       /\ (pc' = "after" /\ ~plan[step_index'].par) =>
            heap'[current_context'].current_step_id = StepId(step_index', 1)
       /\ \A sid \in ChangedEntries :
            \/ sid \in invoked' \ invoked
            \/ pc = "after" /\ pc' = "dispatch" /\ PosOf(sid) = step_index]_vars

\* The first worker of a group of two has reported progress beyond 100 and
\* its sibling has not run: the tracker holds the first worker's entry only.
C34_Witness ==
    /\ pc = "collect"
    /\ Len(workers) = 2
    /\ workers[1].st = "done"
    /\ workers[2].st = "pending"
    /\ DOMAIN step_progress = {StepId(step_index, 1)}
    /\ step_progress[StepId(step_index, 1)] = 100

----------------------------------------------------------------------------
\* C35: PipelineExecutor.execute, given the context run was given and steps
\* that behave and complete as they did under run, has raised exactly when
\* run has raised, with the same exception; and after the same positions its
\* current context has the results and the errors of run's, up to the
\* return.
C35_OrchestratorsAgree ==
    LET x == PipelineExecutorExecute(trace)
    IN  /\ pc = "raised" => x.exc = exc
        /\ pc \in {"dispatch", "returned"} =>
            /\ x.exc = NoExc
            /\ x.heap[x.current_context].results = heap[current_context].results
            /\ x.heap[x.current_context].errors = heap[current_context].errors
        /\ pc = "returned" =>
            /\ Len(trace.positions) = Len(plan)
            /\ ret = current_context

\* run has returned after a first position that failed and a group that was
\* merged, on a context that held a value.
C35_Witness ==
    /\ pc = "returned"
    /\ Len(trace.positions) = 2
    /\ entry_errors # <<>>
    /\ 1 \in pos_failed
    /\ 2 \in pos_ok
    /\ plan[2].par
    /\ plan[2].n = 1

====
